---- MODULE Spec2Model ----
(***************************************************************************)
(* Model of src/wizard/partner_import_wizard.py: the partner import wizard *)
(* (PartnerImportWizard).  One wizard record holds an uploaded file, its   *)
(* name and an import mode; process_file decodes the file into rows and    *)
(* creates or updates res.partner records row by row.                      *)
(*                                                                         *)
(* Text that the code inspects character by character (file names, column *)
(* headers) is a sequence of one-character strings; text that the code     *)
(* only compares or copies (cell values) is a string.  Bytes and code      *)
(* points are integers.                                                    *)
(***************************************************************************)
EXTENDS Integers, Sequences, FiniteSets, TLC

VARIABLES
    file_name,      \* wizard field file_name (sequence of characters)
    file,           \* wizard field file, as the structure the parsers see
    import_mode,    \* wizard field import_mode
    file_type,      \* wizard field file_type (computed, stored)
    excel_support,  \* module flag EXCEL_SUPPORT
    partners,       \* the res.partner table (sequence, position = id)
    pc,             \* position of the wizard's caller / of process_file
    pos,            \* lines the csv reader has consumed / rows iterated
    rows,           \* _process_excel: the collected list `rows`
    idx,            \* _process_rows: the next value of enumerate(rows, 2)
    created,        \* _process_rows: created
    updated,        \* _process_rows: updated
    errors,         \* _process_rows: errors
    result,         \* what process_file returned or raised
    run,            \* how many times process_file has been invoked
    nfaults,        \* exceptions the store has raised so far
    log,            \* history: one entry per non-blank row processed
    calls,          \* history: store calls issued by the current run
    start_partners, \* history: the partner table when the run started
    file_content,   \* _process_csv: the bytes handed to decode
    text,           \* history: the text the bytes were encoded from
    encoding,       \* history: the encoding the bytes were written in
    file_string,    \* _process_csv: file_string
    attempt,        \* _process_csv: encodings of the fallback loop tried
    dpc             \* position inside the decoding block of _process_csv

vars == <<file_name, file, import_mode, file_type, excel_support, partners,
          pc, pos, rows, idx, created, updated, errors, result, run, nfaults,
          log, calls, start_partners, file_content, text, encoding,
          file_string, attempt, dpc>>

wizvars == <<file_name, file, import_mode, file_type, excel_support, partners,
             pc, pos, rows, idx, created, updated, errors, result, run,
             nfaults, log, calls, start_partners>>

decvars == <<file_content, text, encoding, file_string, attempt, dpc>>

(***************************************************************************)
(* Bounds of the model.                                                    *)
(***************************************************************************)
MaxLines == 3
MaxRuns == 2
MaxFaults == 1
MaxText == 3

(***************************************************************************)
(* Python values.                                                          *)
(***************************************************************************)
None == "<None>"
EmptyStr == ""
False == 0

Truthy(val) == val /= None /\ val /= EmptyStr

Min(a, b) == IF a < b THEN a ELSE b

(***************************************************************************)
(* str.lower and str.endswith on character sequences.                      *)
(***************************************************************************)
UpperLetters == <<"A","B","C","D","E","F","G","H","I","J","K","L","M",
                  "N","O","P","Q","R","S","T","U","V","W","X","Y","Z">>
LowerLetters == <<"a","b","c","d","e","f","g","h","i","j","k","l","m",
                  "n","o","p","q","r","s","t","u","v","w","x","y","z">>

LowerChar(c) ==
    IF \E i \in 1..Len(UpperLetters) : UpperLetters[i] = c
    THEN LowerLetters[CHOOSE i \in 1..Len(UpperLetters) : UpperLetters[i] = c]
    ELSE c

Lower(s) == [i \in 1..Len(s) |-> LowerChar(s[i])]

EndsWith(s, suffix) ==
    /\ Len(s) >= Len(suffix)
    /\ SubSeq(s, Len(s) - Len(suffix) + 1, Len(s)) = suffix

DotXlsx == <<".","x","l","s","x">>
DotCsv == <<".","c","s","v">>

NoType == "False"

\* _compute_file_type
ComputeFileType(name) ==
    IF name /= <<>>
    THEN IF EndsWith(Lower(name), DotXlsx) THEN "xlsx"
         ELSE IF EndsWith(Lower(name), DotCsv) THEN "csv"
         ELSE NoType
    ELSE "csv"

\* _check_file_type: the condition under which ValidationError is raised
ConstraintFails(name, type) == name /= <<>> /\ type = NoType

\* variant: the check of the file name left out
FileNameMissing_Never(name) == FALSE

\* process_file: `if not self.file_name`
FileNameMissing(name) == name = <<>>

\* process_file: `if not self.file_type`
FileTypeMissing(type) == type = NoType

(***************************************************************************)
(* Column headers the code looks up, and the rows the two decoders build.  *)
(* A file is [header |-> <<cell, ...>>, lines |-> <<line, ...>>]; a line   *)
(* is [t |-> "rec", cells |-> <<value, ...>>], [t |-> "empty"] (a line     *)
(* with no characters / a sheet row with no cells) or [t |-> "bad"] (a     *)
(* record the parser cannot read).                                         *)
(***************************************************************************)
NameKey == <<"n","a","m","e">>
EmailKey == <<"e","m","a","i","l">>
PhoneKey == <<"p","h","o","n","e">>
StreetKey == <<"s","t","r","e","e","t">>
CityKey == <<"c","i","t","y">>
ZipKey == <<"z","i","p">>
CountryKey == <<"c","o","u","n","t","r","y">>

\* csv.DictReader: restkey (None) and the list stored under it
RestKey == <<"<None>">>
RestList == "<list>"

LastIndex(header, k) ==
    CHOOSE i \in 1..Len(header) :
        /\ header[i] = k
        /\ \A j \in 1..Len(header) : header[j] = k => j <= i

\* csv.DictReader.__next__: the dict built for one record; the header is
\* used as read (line 106 passes no fieldnames and changes none)
CsvFieldnames(header) == header

CsvRowDict(header, cells) ==
    LET names == CsvFieldnames(header)
        keys == {names[i] : i \in 1..Len(names)}
                    \cup (IF Len(cells) > Len(names) THEN {RestKey} ELSE {})
    IN  [k \in keys |->
            IF k = RestKey /\ Len(cells) > Len(names) /\
                   ~(\E i \in 1..Len(names) : names[i] = k)
            THEN RestList
            ELSE IF LastIndex(names, k) <= Len(cells)
                 THEN cells[LastIndex(names, k)]
                 ELSE None]

\* _process_excel: headers (lines 123-125)
ExcelHeaders(header) ==
    [i \in 1..Len(header) |->
        IF header[i] /= <<>> THEN Lower(header[i]) ELSE <<>>]

\* _process_excel: row_data of one sheet row (lines 129-132)
ExcelRowData(headers, cells) ==
    LET used == {i \in 1..Min(Len(cells), Len(headers)) : headers[i] /= <<>>}
        keys == {headers[i] : i \in used}
    IN  [k \in keys |->
            cells[CHOOSE i \in used :
                     headers[i] = k /\ \A j \in used : headers[j] = k => j <= i]]

\* variant: `any(row)`, true of every row that has a column
AnyValue_AnyKey(row) == DOMAIN row /= {}

\* `any(val for val in row.values() if val not in (None, ""))`
AnyValue(row) == \E k \in DOMAIN row : row[k] /= None /\ row[k] /= EmptyStr /\ Truthy(row[k])

Get(row, k) == IF k \in DOMAIN row THEN row[k] ELSE None

GetOr(row, k, default) == IF k \in DOMAIN row THEN row[k] ELSE default

(***************************************************************************)
(* The store: res.country and res.partner.                                 *)
(***************************************************************************)
CountryTable == <<"Peru">>

\* _get_country
GetCountry(country_name) ==
    IF ~Truthy(country_name)
    THEN False
    ELSE IF \E i \in 1..Len(CountryTable) : CountryTable[i] = country_name
         THEN CHOOSE i \in 1..Len(CountryTable) : CountryTable[i] = country_name
         ELSE False

\* whether _get_country issues a search
CountrySearched(country_name) == Truthy(country_name)

\* variant: the domain written on the wrong field, ('name', '=', email)
SearchPartner_ByName(table, email) ==
    IF \E i \in 1..Len(table) : table[i].name = email
    THEN CHOOSE i \in 1..Len(table) :
            /\ table[i].name = email
            /\ \A j \in 1..Len(table) : table[j].name = email => i <= j
    ELSE 0

\* env['res.partner'].search([('email', '=', email)], limit=1): the id of
\* the first match, 0 for the empty recordset
SearchPartner(table, email) ==
    IF \E i \in 1..Len(table) : table[i].email = email
    THEN CHOOSE i \in 1..Len(table) :
            /\ table[i].email = email
            /\ \A j \in 1..Len(table) : table[j].email = email => i <= j
    ELSE 0

\* partner_vals (lines 160-168)
PartnerVals(row) ==
    [name |-> row[NameKey],
     email |-> row[EmailKey],
     phone |-> Get(row, PhoneKey),
     street |-> Get(row, StreetKey),
     city |-> Get(row, CityKey),
     zip |-> Get(row, ZipKey),
     country_id |-> GetCountry(Get(row, CountryKey))]

\* the three messages _process_rows appends to errors
MissingMsg(n, row) ==
    [row |-> n, kind |-> "Missing required field",
     name |-> GetOr(row, NameKey, EmptyStr),
     email |-> GetOr(row, EmailKey, EmptyStr)]

SkippedMsg(n, row) ==
    [row |-> n, kind |-> "Skipped", name |-> EmptyStr, email |-> row[EmailKey]]

ErrorMsg(n, detail) ==
    [row |-> n, kind |-> "Error processing", name |-> EmptyStr, email |-> detail]

Call(op, n, ok) == [op |-> op, row |-> n, ok |-> ok]

Faults == {"none", "country", "search", "write"}

\* variant: only the name is required
MissingRequired_NameOnly(row) == ~Truthy(Get(row, NameKey))

\* `if not row.get('name') or not row.get('email')`
MissingRequired(row) == ~Truthy(Get(row, NameKey)) \/ ~Truthy(Get(row, EmailKey))

\* variant: mode both left out of the update branch
MayUpdate_UpdateOnly(partner, mode) == partner /= 0 /\ mode = "update"

\* `partner and self.import_mode in ('update', 'both')`
MayUpdate(partner, mode) == partner /= 0 /\ mode \in {"update", "both"}

\* `not partner and self.import_mode in ('create', 'both')`
MayCreate(partner, mode) == partner = 0 /\ mode \in {"create", "both"}

\* row['name'] and row['email'] (lines 161-162) raise KeyError otherwise
HasKeys(row) == NameKey \in DOMAIN row /\ EmailKey \in DOMAIN row

(***************************************************************************)
(* _process_rows, the body of the loop for one row (lines 150-184).  st is *)
(* [partners, created, updated, errors, calls, outcome]; fault says which  *)
(* store call of this row raises, if it is made.                           *)
(***************************************************************************)
\* variant: the exception is swallowed without a message
RowFailed_Silent(st, n, issued, detail) ==
    [st EXCEPT !.calls = issued, !.outcome = "Error"]

RowFailed(st, n, issued, detail) ==
    [st EXCEPT !.errors = Append(@, ErrorMsg(n, detail)),
               !.calls = issued,
               !.outcome = "Error"]

ResolveRow(st, row, n, mode, fault, issued) ==
    LET partner == SearchPartner(st.partners, row[EmailKey])
        vals == PartnerVals(row)
        found == Append(issued, Call("search", n, TRUE))
    IN  IF MayUpdate(partner, mode)
        THEN IF fault = "write"
             THEN RowFailed(st, n, Append(found, Call("write", n, FALSE)), "write")
             ELSE [st EXCEPT !.partners = [@ EXCEPT ![partner] = vals],
                             !.updated = @ + 1,
                             !.calls = Append(found, Call("write", n, TRUE)),
                             !.outcome = "Updated"]
        ELSE IF MayCreate(partner, mode)
        THEN IF fault = "write"
             THEN RowFailed(st, n, Append(found, Call("create", n, FALSE)), "create")
             ELSE [st EXCEPT !.partners = Append(@, vals),
                             !.created = @ + 1,
                             !.calls = Append(found, Call("create", n, TRUE)),
                             !.outcome = "Created"]
        ELSE [st EXCEPT !.errors = Append(@, SkippedMsg(n, row)),
                        !.calls = found,
                        !.outcome = "Skipped"]

ProcessRow(st, row, n, mode, fault) ==
    IF ~AnyValue(row)
    THEN [st EXCEPT !.outcome = "Blank"]
    ELSE IF MissingRequired(row)
    THEN [st EXCEPT !.errors = Append(@, MissingMsg(n, row)),
                    !.outcome = "Missing"]
    ELSE IF ~HasKeys(row)
    THEN RowFailed(st, n, st.calls, "KeyError")
    ELSE LET country == Get(row, CountryKey)
             looked == IF CountrySearched(country)
                       THEN Append(st.calls, Call("country", n, fault /= "country"))
                       ELSE st.calls
         IN  IF CountrySearched(country) /\ fault = "country"
             THEN RowFailed(st, n, looked, "country")
             ELSE IF fault = "search"
             THEN RowFailed(st, n, Append(looked, Call("search", n, FALSE)), "search")
             ELSE ResolveRow(st, row, n, mode, fault, looked)

\* the store calls a fault can hit while this row is processed
FaultApplies(st, row, mode, fault) ==
    \/ fault = "none"
    \/ /\ AnyValue(row)
       /\ ~MissingRequired(row)
       /\ HasKeys(row)
       /\ \/ fault = "country" /\ CountrySearched(Get(row, CountryKey))
          \/ fault = "search"
          \/ /\ fault = "write"
             /\ LET partner == SearchPartner(st.partners, row[EmailKey])
                IN  MayUpdate(partner, mode) \/ MayCreate(partner, mode)

\* _process_rows: the state before the loop (lines 145-147)
StartState(table) ==
    [partners |-> table, created |-> 0, updated |-> 0, errors |-> <<>>,
     calls |-> <<>>, outcome |-> "Blank"]

\* _process_rows: the notification (lines 186-235)
DisplayLimit == 3

Notification(ncreated, nupdated, errs) ==
    IF errs /= <<>>
    THEN [title |-> "Import Completed with Errors", type |-> "warning",
          sticky |-> TRUE, created |-> ncreated, updated |-> nupdated,
          error_count |-> Len(errs),
          samples |-> SubSeq(errs, 1, Min(DisplayLimit, Len(errs))),
          more |-> IF Len(errs) > DisplayLimit THEN Len(errs) - DisplayLimit ELSE 0]
    ELSE [title |-> "Import Successful", type |-> "success",
          sticky |-> FALSE, created |-> ncreated, updated |-> nupdated,
          error_count |-> 0, samples |-> <<>>, more |-> 0]

(***************************************************************************)
(* The two row sources of _process_rows.                                   *)
(***************************************************************************)
\* csv.DictReader.__next__ skips the records that csv.reader returns as []:
\* the first line after `from` that is not empty, 0 when the input ends
NextRecord(lines, from) ==
    IF \E j \in (from + 1)..Len(lines) : lines[j].t /= "empty"
    THEN CHOOSE j \in (from + 1)..Len(lines) :
            /\ lines[j].t /= "empty"
            /\ \A i \in (from + 1)..Len(lines) : lines[i].t /= "empty" => j <= i
    ELSE 0

\* a sheet row as iter_rows yields it
SheetCells(line) == IF line.t = "rec" THEN line.cells ELSE <<>>

\* _process_excel: the list `rows` (lines 127-134), each row_data kept with
\* the sheet row it was read from
RECURSIVE ExcelRows(_, _, _)
ExcelRows(headers, lines, k) ==
    IF k > Len(lines)
    THEN <<>>
    ELSE LET row_data == ExcelRowData(headers, SheetCells(lines[k]))
         IN  IF AnyValue(row_data)
             THEN <<[line |-> k + 1, data |-> row_data]>>
                      \o ExcelRows(headers, lines, k + 1)
             ELSE ExcelRows(headers, lines, k + 1)

\* openpyxl fails to read the workbook or one of its rows
ExcelUnreadable(f) == \E k \in 1..Len(f.lines) : f.lines[k].t = "bad"

UserError(msg) == [kind |-> "UserError", msg |-> msg]
Returned(notification) == [kind |-> "return", msg |-> notification]
NoResult == [kind |-> "none", msg |-> ""]

(***************************************************************************)
(* Actions.                                                                *)
(***************************************************************************)
LoopState == [partners |-> partners, created |-> created, updated |-> updated,
              errors |-> errors, calls |-> calls, outcome |-> "Blank"]

\* the wizard record is saved: _check_file_type runs
CheckFileType ==
    /\ pc = "new"
    /\ IF ConstraintFails(file_name, file_type)
       THEN /\ pc' = "invalid"
            /\ result' = [kind |-> "ValidationError", msg |-> "Unsupported file format"]
       ELSE /\ pc' = "saved"
            /\ result' = result
    /\ UNCHANGED <<file_name, file, import_mode, file_type, excel_support,
                   partners, pos, rows, idx, created, updated, errors, run,
                   nfaults, log, calls, start_partners>>
    /\ UNCHANGED decvars

Raise(msg) ==
    /\ pc' = "raised"
    /\ result' = UserError(msg)
    /\ UNCHANGED <<rows, pos, idx, created, updated, errors>>

\* process_file up to the first row: the checks of lines 56-68, then
\* _process_csv up to the reader (lines 87-106) or _process_excel up to the
\* call of _process_rows (lines 119-136), and lines 145-147
ProcessFile ==
    /\ pc \in {"new", "saved", "done"}
    /\ run < MaxRuns
    /\ run' = run + 1
    /\ start_partners' = partners
    /\ log' = <<>>
    /\ calls' = <<>>
    /\ IF FileNameMissing(file_name)
       THEN Raise("Please upload a file.")
       ELSE IF FileTypeMissing(file_type)
       THEN Raise("Unsupported file format")
       ELSE IF file_type = "xlsx" /\ ~excel_support
       THEN Raise("Excel import requires the openpyxl library")
       ELSE IF file_type = "csv"
       THEN /\ pc' = "csv"
            /\ rows' = <<>>
            /\ pos' = 0
            /\ idx' = 2
            /\ created' = 0
            /\ updated' = 0
            /\ errors' = <<>>
            /\ result' = NoResult
       ELSE IF ExcelUnreadable(file)
       THEN Raise("Failed to process file: Invalid Excel file")
       ELSE /\ pc' = "rows"
            /\ rows' = ExcelRows(ExcelHeaders(file.header), file.lines, 1)
            /\ pos' = 0
            /\ idx' = 2
            /\ created' = 0
            /\ updated' = 0
            /\ errors' = <<>>
            /\ result' = NoResult
    /\ UNCHANGED <<file_name, file, import_mode, file_type, excel_support,
                   partners, nfaults>>
    /\ UNCHANGED decvars

\* one iteration of the loop of _process_rows (lines 149-184) on `row`,
\* read from line `line` of the file
Iterate(row, line) ==
    \E fault \in Faults :
        /\ FaultApplies(LoopState, row, import_mode, fault)
        /\ fault /= "none" => nfaults < MaxFaults
        /\ LET st == ProcessRow(LoopState, row, idx, import_mode, fault)
           IN  /\ partners' = st.partners
               /\ created' = st.created
               /\ updated' = st.updated
               /\ errors' = st.errors
               /\ calls' = st.calls
               /\ log' = Append(log, [line |-> line, idx |-> idx, row |-> row,
                                      fault |-> fault, outcome |-> st.outcome])
        /\ nfaults' = IF fault = "none" THEN nfaults ELSE nfaults + 1
        /\ idx' = idx + 1

\* the loop draws the next record from the csv reader and processes it
CsvNext ==
    /\ pc = "csv"
    /\ LET j == NextRecord(file.lines, pos)
       IN  /\ j /= 0
           /\ file.lines[j].t = "rec"
           /\ Iterate(CsvRowDict(file.header, file.lines[j].cells), j + 1)
           /\ pos' = j
    /\ UNCHANGED <<file_name, file, import_mode, file_type, excel_support,
                   pc, rows, result, run, start_partners>>
    /\ UNCHANGED decvars

\* the csv reader raises csv.Error on the next record (lines 109-112, 80-83)
CsvError ==
    /\ pc = "csv"
    /\ LET j == NextRecord(file.lines, pos)
       IN  /\ j /= 0
           /\ file.lines[j].t = "bad"
           /\ pos' = j
    /\ pc' = "raised"
    /\ result' = UserError("Failed to process file: Invalid CSV file format")
    /\ UNCHANGED <<file_name, file, import_mode, file_type, excel_support,
                   partners, rows, idx, created, updated, errors, run, nfaults,
                   log, calls, start_partners>>
    /\ UNCHANGED decvars

\* the loop processes the next element of the list built by _process_excel
ExcelNext ==
    /\ pc = "rows"
    /\ pos < Len(rows)
    /\ Iterate(rows[pos + 1].data, rows[pos + 1].line)
    /\ pos' = pos + 1
    /\ UNCHANGED <<file_name, file, import_mode, file_type, excel_support,
                   pc, rows, result, run, start_partners>>
    /\ UNCHANGED decvars

\* the rows are exhausted: the notification is built and returned
Report ==
    /\ IF pc = "csv" THEN NextRecord(file.lines, pos) = 0
       ELSE pc = "rows" /\ pos = Len(rows)
    /\ pc' = "done"
    /\ result' = Returned(Notification(created, updated, errors))
    /\ UNCHANGED <<file_name, file, import_mode, file_type, excel_support,
                   partners, pos, rows, idx, created, updated, errors, run,
                   nfaults, log, calls, start_partners>>
    /\ UNCHANGED decvars

(***************************************************************************)
(* process_file as a function of its inputs: the same steps as the actions *)
(* above, run to the end.  faultOf maps a line of the file to the store    *)
(* call that raises while that line's row is processed.                    *)
(***************************************************************************)
RECURSIVE CsvRun(_, _, _, _, _, _)
CsvRun(f, from, n, st, mode, faultOf) ==
    LET j == NextRecord(f.lines, from)
    IN  IF j = 0
        THEN [status |-> "done", st |-> st]
        ELSE IF f.lines[j].t = "bad"
        THEN [status |-> "raised", st |-> st]
        ELSE CsvRun(f, j, n + 1,
                    ProcessRow(st, CsvRowDict(f.header, f.lines[j].cells), n,
                               mode, faultOf[j + 1]),
                    mode, faultOf)

RECURSIVE RowsRun(_, _, _, _, _, _)
RowsRun(list, from, n, st, mode, faultOf) ==
    IF from = Len(list)
    THEN [status |-> "done", st |-> st]
    ELSE RowsRun(list, from + 1, n + 1,
                 ProcessRow(st, list[from + 1].data, n, mode,
                            faultOf[list[from + 1].line]),
                 mode, faultOf)

RunFile(type, f, mode, table, faultOf) ==
    IF type = "csv"
    THEN CsvRun(f, 0, 2, StartState(table), mode, faultOf)
    ELSE IF ExcelUnreadable(f)
    THEN [status |-> "raised", st |-> StartState(table)]
    ELSE RowsRun(ExcelRows(ExcelHeaders(f.header), f.lines, 1), 0, 2,
                 StartState(table), mode, faultOf)

(***************************************************************************)
(* Initial states: a wizard record as created from an upload, and a        *)
(* partner table.  Three families of inputs: files under the canonical     *)
(* header, files under other headers, and file names.                      *)
(***************************************************************************)
Rec(cells) == [t |-> "rec", cells |-> cells]
EmptyLine == [t |-> "empty", cells |-> <<>>]
BadLine == [t |-> "bad", cells |-> <<>>]

SeqsUpTo(S, n) == UNION {[1..m -> S] : m \in 0..n}

CsvName == <<"a", ".", "c", "s", "v">>
XlsxName == <<"a", ".", "x", "l", "s", "x">>

FileNames ==
    {<<>>, CsvName, XlsxName,
     <<"A", ".", "C", "S", "V">>,
     <<"b", ".", "X", "l", "s", "X">>,
     <<"a", ".", "t", "x", "t">>,
     <<"c", "s", "v">>,
     <<"a", ".", "c", "s", "v", ".", "b", "a", "k">>}

Modes == {"create", "update", "both"}

Partner(name, email) ==
    [name |-> name, email |-> email, phone |-> None, street |-> None,
     city |-> None, zip |-> None, country_id |-> False]

Stores ==
    {<<>>,
     <<Partner("Old", "b@x"), Partner("Old", "a@x")>>}

MainHeader == <<NameKey, EmailKey, CountryKey>>

MainLines ==
    {Rec(<<"Ann", "a@x", "">>),
     Rec(<<"Bob", "b@x", "Peru">>),
     Rec(<<"", "", "">>),
     Rec(<<"Bob", "", "">>),
     EmptyLine,
     BadLine}

OtherHeaders ==
    {<<<<"N","a","m","e">>, <<"E","m","a","i","l">>>>,
     <<<<"N","A","M","E">>, EmailKey>>,
     <<NameKey, <<>>, EmailKey>>,
     <<NameKey, EmailKey, <<"n","o","t","e","s">>>>}

OtherLines ==
    {Rec(<<"Ann", "a@x">>),
     Rec(<<"Bob">>),
     Rec(<<"Cy", "b@x", "c@x">>)}

InitWizard ==
    /\ file_type = ComputeFileType(file_name)
    /\ pc = "new"
    /\ pos = 0
    /\ rows = <<>>
    /\ idx = 2
    /\ created = 0
    /\ updated = 0
    /\ errors = <<>>
    /\ result = NoResult
    /\ run = 0
    /\ nfaults = 0
    /\ log = <<>>
    /\ calls = <<>>
    /\ start_partners = partners

InitIdleDecoder ==
    /\ file_content = <<>>
    /\ text = <<>>
    /\ encoding = "none"
    /\ file_string = <<>>
    /\ attempt = 0
    /\ dpc = "idle"

InitMain ==
    /\ file_name \in {CsvName, XlsxName}
    /\ file \in [header : {MainHeader}, lines : SeqsUpTo(MainLines, MaxLines)]
    /\ excel_support = TRUE

InitHeaders ==
    /\ file_name \in {CsvName, XlsxName}
    /\ file \in [header : OtherHeaders, lines : SeqsUpTo(OtherLines, MaxLines)]
    /\ excel_support = TRUE

InitNames ==
    /\ file_name \in FileNames
    /\ file \in [header : {MainHeader},
                 lines : {<<Rec(<<"Ann", "a@x", "">>)>>, <<BadLine>>}]
    /\ excel_support \in BOOLEAN

Init ==
    /\ InitMain \/ InitHeaders \/ InitNames
    /\ import_mode \in Modes
    /\ partners \in Stores
    /\ InitWizard
    /\ InitIdleDecoder

Next ==
    \/ CheckFileType
    \/ ProcessFile
    \/ CsvNext
    \/ CsvError
    \/ ExcelNext
    \/ Report

Spec == Init /\ [][Next]_vars

(***************************************************************************)
(* The decoding block of _process_csv (lines 87-103).  Bytes are 0..255,   *)
(* characters are Unicode code points.                                     *)
(***************************************************************************)
Decoded(chars) == [ok |-> TRUE, chars |-> chars]
DecodeError == [ok |-> FALSE, chars |-> <<>>]

IsCont(b) == b >= 128 /\ b <= 191

\* the UTF-8 decoder: well-formed sequences of 1 to 4 bytes, no overlong
\* forms, no surrogates
RECURSIVE Utf8Decode(_)
Utf8Decode(b) ==
    IF b = <<>>
    THEN Decoded(<<>>)
    ELSE LET n == Len(b)
             b1 == b[1]
             size == IF b1 < 128 THEN 1
                     ELSE IF b1 >= 194 /\ b1 <= 223 THEN 2
                     ELSE IF b1 >= 224 /\ b1 <= 239 THEN 3
                     ELSE IF b1 >= 240 /\ b1 <= 244 THEN 4
                     ELSE 0
             wellFormed ==
                 /\ size /= 0
                 /\ n >= size
                 /\ \A i \in 2..size : IsCont(b[i])
                 /\ b1 = 224 => b[2] >= 160
                 /\ b1 = 237 => b[2] <= 159
                 /\ b1 = 240 => b[2] >= 144
                 /\ b1 = 244 => b[2] <= 143
             point == IF size = 1 THEN b1
                      ELSE IF size = 2 THEN (b1 - 192) * 64 + (b[2] - 128)
                      ELSE IF size = 3
                      THEN (b1 - 224) * 4096 + (b[2] - 128) * 64 + (b[3] - 128)
                      ELSE (b1 - 240) * 262144 + (b[2] - 128) * 4096
                               + (b[3] - 128) * 64 + (b[4] - 128)
         IN  IF ~wellFormed
             THEN DecodeError
             ELSE LET rest == Utf8Decode(SubSeq(b, size + 1, n))
                  IN  IF rest.ok THEN Decoded(<<point>> \o rest.chars)
                      ELSE DecodeError

Bom == <<239, 187, 191>>

\* bytes.decode('utf-8-sig'): a leading byte-order mark is dropped
Utf8SigDecode(b) ==
    IF Len(b) >= Len(Bom) /\ SubSeq(b, 1, Len(Bom)) = Bom
    THEN Utf8Decode(SubSeq(b, Len(Bom) + 1, Len(b)))
    ELSE Utf8Decode(b)

\* bytes.decode('latin-1') and its alias 'iso-8859-1': byte n is U+00nn
Latin1Decode(b) == Decoded([i \in 1..Len(b) |-> b[i]])

\* cp1252: bytes 0x80-0x9F; 0 marks the five bytes Python leaves undefined
Cp1252High ==
    <<8364, 0, 8218, 402, 8222, 8230, 8224, 8225,
      710, 8240, 352, 8249, 338, 0, 381, 0,
      0, 8216, 8217, 8220, 8221, 8226, 8211, 8212,
      732, 8482, 353, 8250, 339, 0, 382, 376>>

Cp1252Point(byte) ==
    IF byte >= 128 /\ byte <= 159 THEN Cp1252High[byte - 127] ELSE byte

\* bytes.decode('cp1252')
Cp1252Decode(b) ==
    IF \E i \in 1..Len(b) : Cp1252Point(b[i]) = 0
    THEN DecodeError
    ELSE Decoded([i \in 1..Len(b) |-> Cp1252Point(b[i])])

\* the list of line 93
FallbackEncodings == <<"latin-1", "iso-8859-1", "cp1252">>

DecodeAs(name, b) ==
    IF name = "cp1252" THEN Cp1252Decode(b) ELSE Latin1Decode(b)

(***************************************************************************)
(* How the uploaded bytes were produced: str.encode of the writer.         *)
(***************************************************************************)
Utf8EncodePoint(c) ==
    IF c < 128 THEN <<c>>
    ELSE IF c < 2048 THEN <<192 + (c \div 64), 128 + (c % 64)>>
    ELSE IF c < 65536
    THEN <<224 + (c \div 4096), 128 + ((c \div 64) % 64), 128 + (c % 64)>>
    ELSE <<240 + (c \div 262144), 128 + ((c \div 4096) % 64),
           128 + ((c \div 64) % 64), 128 + (c % 64)>>

RECURSIVE Utf8Encode(_)
Utf8Encode(chars) ==
    IF chars = <<>> THEN <<>>
    ELSE Utf8EncodePoint(Head(chars)) \o Utf8Encode(Tail(chars))

Cp1252Byte(c) ==
    IF c < 128 \/ (c >= 160 /\ c <= 255) THEN c
    ELSE IF \E i \in 1..Len(Cp1252High) : Cp1252High[i] = c /\ c /= 0
    THEN 127 + (CHOOSE i \in 1..Len(Cp1252High) : Cp1252High[i] = c)
    ELSE 0

Cp1252Encodable(chars) ==
    \A i \in 1..Len(chars) : chars[i] = 0 \/ Cp1252Byte(chars[i]) /= 0

Cp1252Encode(chars) == [i \in 1..Len(chars) |-> Cp1252Byte(chars[i])]

Encode(name, chars) ==
    IF name = "cp1252" THEN Cp1252Encode(chars) ELSE Utf8Encode(chars)

\* characters of the sample texts: a , e-acute, euro sign, oe ligature,
\* A-tilde, copyright sign
Alphabet == {97, 44, 233, 8364, 339, 195, 169}

\* line 90: the first attempt
DecodeUtf8 ==
    /\ dpc = "start"
    /\ LET r == Utf8SigDecode(file_content)
       IN  IF r.ok
           THEN /\ file_string' = r.chars
                /\ dpc' = "decoded"
           ELSE /\ file_string' = file_string
                /\ dpc' = "fallback"
    /\ UNCHANGED <<file_content, text, encoding, attempt>>
    /\ UNCHANGED wizvars

\* lines 93-103: one round of the fallback loop, or its else clause
TryEncoding ==
    /\ dpc = "fallback"
    /\ IF attempt = Len(FallbackEncodings)
       THEN /\ dpc' = "failed"
            /\ UNCHANGED <<file_string, attempt>>
       ELSE LET r == DecodeAs(FallbackEncodings[attempt + 1], file_content)
            IN  /\ attempt' = attempt + 1
                /\ IF r.ok
                   THEN /\ file_string' = r.chars
                        /\ dpc' = "decoded"
                   ELSE /\ file_string' = file_string
                        /\ dpc' = "fallback"
    /\ UNCHANGED <<file_content, text, encoding>>
    /\ UNCHANGED wizvars

InitDecode ==
    /\ text \in SeqsUpTo(Alphabet, MaxText)
    /\ encoding \in {"utf-8", "cp1252"}
    /\ Cp1252Encodable(text)
    /\ file_content = Encode(encoding, text)
    /\ file_string = <<>>
    /\ attempt = 0
    /\ dpc = "start"
    /\ file_name = CsvName
    /\ file = [header |-> MainHeader, lines |-> <<>>]
    /\ excel_support = TRUE
    /\ import_mode = "create"
    /\ partners = <<>>
    /\ InitWizard

NextDecode == DecodeUtf8 \/ TryEncoding

SpecDecode == InitDecode /\ [][NextDecode]_vars

(***************************************************************************)
(* Vocabulary of the properties, stated on the file and on the history.    *)
(***************************************************************************)
EmptyOrAbsent(row, k) == k \notin DOMAIN row \/ row[k] = None \/ row[k] = EmptyStr

RowBlank(row) == \A k \in DOMAIN row : row[k] = None \/ row[k] = EmptyStr

RowLacksRequired(row) == EmptyOrAbsent(row, NameKey) \/ EmptyOrAbsent(row, EmailKey)

\* the row mapping the decoder of `type` builds from one record
RowOf(type, f, k) ==
    IF type = "csv"
    THEN CsvRowDict(f.header, f.lines[k].cells)
    ELSE ExcelRowData(ExcelHeaders(f.header), SheetCells(f.lines[k]))

NonBlankLines(type, f) ==
    {k \in 1..Len(f.lines) : f.lines[k].t = "rec" /\ ~RowBlank(RowOf(type, f, k))}

ValidLines(type, f) ==
    {k \in NonBlankLines(type, f) : ~RowLacksRequired(RowOf(type, f, k))}

EmailKnown(table, email) == \E i \in 1..Len(table) : table[i].email = email

IsWrite(call) == call.op \in {"create", "write"}

Count(seq, Test(_)) == Cardinality({i \in 1..Len(seq) : Test(seq[i])})

\* the step just taken processed a row; Last is its history entry
RowStep == Len(log') = Len(log) + 1
Last == log'[Len(log')]
NewCalls == SubSeq(calls', Len(calls) + 1, Len(calls'))

\* the store call that raised for the row read from line l, from the history
FaultLog ==
    [l \in 1..(Len(file.lines) + 1) |->
        IF \E i \in 1..Len(log) : log[i].line = l
        THEN log[CHOOSE i \in 1..Len(log) : log[i].line = l].fault
        ELSE "none"]

Text(errs) ==
    [i \in 1..Len(errs) |->
        [kind |-> errs[i].kind, name |-> errs[i].name, email |-> errs[i].email]]

(***************************************************************************)
(* C1.  Every step that processes a validated row whose store calls do not *)
(* raise follows the decision table on the partner table as it is at that  *)
(* step: email absent and mode create/both: one create, created + 1; email *)
(* present and mode update/both: one write on the first partner with that  *)
(* email, updated + 1; otherwise no write and a Skipped message carrying   *)
(* the row number.  A write is issued iff created or updated grows.        *)
(***************************************************************************)
C1_DecisionTable ==
    [][(RowStep /\ ~RowBlank(Last.row) /\ ~RowLacksRequired(Last.row)
            /\ Last.fault = "none") =>
        LET email == Last.row[EmailKey]
            found == EmailKnown(partners, email)
            writes == Count(NewCalls, IsWrite)
        IN  /\ (~found /\ import_mode \in {"create", "both"}) =>
                /\ Len(partners') = Len(partners) + 1
                /\ SubSeq(partners', 1, Len(partners)) = partners
                /\ partners'[Len(partners')].email = email
                /\ partners'[Len(partners')].name = Last.row[NameKey]
                /\ created' = created + 1
                /\ updated' = updated
                /\ errors' = errors
                /\ writes = 1
            /\ (found /\ import_mode \in {"update", "both"}) =>
                /\ Len(partners') = Len(partners)
                /\ \E i \in 1..Len(partners) :
                      /\ partners[i].email = email
                      /\ partners'[i].email = email
                      /\ partners'[i].name = Last.row[NameKey]
                      /\ \A j \in 1..Len(partners) : j /= i => partners'[j] = partners[j]
                /\ updated' = updated + 1
                /\ created' = created
                /\ errors' = errors
                /\ writes = 1
            /\ ((found /\ import_mode = "create") \/ (~found /\ import_mode = "update")) =>
                /\ partners' = partners
                /\ created' = created
                /\ updated' = updated
                /\ Len(errors') = Len(errors) + 1
                /\ errors'[Len(errors')].kind = "Skipped"
                /\ errors'[Len(errors')].row = idx
                /\ errors'[Len(errors')].email = email
                /\ writes = 0
            /\ (writes > 0 \/ partners' /= partners) <=>
                   (created' + updated' = created + updated + 1)
      ]_vars

\* a row is updated in mode both although its email was not in the table
\* when the run started: an earlier row of the same run created it
C1_Witness ==
    /\ pc = "done"
    /\ import_mode = "both"
    /\ \E i \in 1..Len(log) :
          /\ log[i].outcome = "Updated"
          /\ ~EmailKnown(start_partners, log[i].row[EmailKey])

Without(f, k) ==
    [f EXCEPT !.lines = SubSeq(@, 1, k - 1) \o SubSeq(@, k + 1, Len(@))]

FaultsWithout(k) ==
    [l \in 1..Len(file.lines) |-> IF l < k + 1 THEN FaultLog[l] ELSE FaultLog[l + 1]]

WriteText(cs) ==
    LET w == SelectSeq(cs, IsWrite)
    IN  [i \in 1..Len(w) |-> [op |-> w[i].op, ok |-> w[i].ok]]

(***************************************************************************)
(* C2.  When a run returns, every non-blank row whose name or email is     *)
(* empty or absent has one 'Missing required field' message with its row   *)
(* number, no store call was issued for it, and the partner table, the     *)
(* counts, the other messages and the writes are those of the run on the   *)
(* file without that row (same table at the start, same faults).           *)
(***************************************************************************)
C2_MissingRowIsolated ==
    pc = "done" =>
        \A k \in NonBlankLines(file_type, file) :
            RowLacksRequired(RowOf(file_type, file, k)) =>
                \E i \in 1..Len(log) :
                    /\ log[i].line = k + 1
                    /\ LET n == log[i].idx
                           other == RunFile(file_type, Without(file, k), import_mode,
                                            start_partners, FaultsWithout(k))
                           mine(m) == m.row = n
                           others(m) == m.row /= n
                       IN  /\ Count(errors, mine) = 1
                           /\ \E j \in 1..Len(errors) :
                                 errors[j].row = n /\ errors[j].kind = "Missing required field"
                           /\ Count(calls, mine) = 0
                           /\ other.status = "done"
                           /\ other.st.partners = partners
                           /\ other.st.created = created
                           /\ other.st.updated = updated
                           /\ Text(other.st.errors) = Text(SelectSeq(errors, others))
                           /\ WriteText(other.st.calls) = WriteText(calls)

\* a row without a required field was followed by a row that was written
C2_Witness ==
    /\ pc = "done"
    /\ \E i, j \in 1..Len(log) :
          /\ i < j
          /\ log[i].outcome = "Missing"
          /\ log[j].outcome \in {"Created", "Updated"}

(***************************************************************************)
(* C3.  When process_file raises a decode failure for a .csv or .xlsx      *)
(* file, the run has issued no create and no write.                        *)
(***************************************************************************)
C3_NoWriteBeforeFailure ==
    (pc = "raised" /\ file_type \in {"csv", "xlsx"}
        /\ result.msg \in {"Failed to process file: Invalid CSV file format",
                           "Failed to process file: Invalid Excel file"})
        => Count(calls, IsWrite) = 0

(***************************************************************************)
(* C4.  In mode both, when no store call raises, every run after the first *)
(* on the same file reports 0 created and N updated, N the number of rows  *)
(* of the file that pass validation.                                       *)
(***************************************************************************)
C4_SecondRunUpdatesOnly ==
    (pc = "done" /\ run >= 2 /\ import_mode = "both" /\ nfaults = 0) =>
        /\ created = 0
        /\ updated = Cardinality(ValidLines(file_type, file))
        /\ result.msg.created = 0
        /\ result.msg.updated = Cardinality(ValidLines(file_type, file))

\* the second run updated two rows that share an email the table did not
\* hold before the first run
C4_Witness ==
    /\ pc = "done"
    /\ run = 2
    /\ import_mode = "both"
    /\ nfaults = 0
    /\ updated = 2
    /\ Len(log) >= 2
    /\ log[1].row[EmailKey] = log[2].row[EmailKey]
    /\ Len(partners) = 1

(***************************************************************************)
(* C5.  A store call that raises while a row is processed leaves one       *)
(* 'Error processing' message with that row's number and nothing else: the *)
(* run stays in the loop, only the csv reader ends a run by raising, and   *)
(* the run that ends returns a notification after every non-blank row of   *)
(* the file was handed to the loop.                                        *)
(***************************************************************************)
C5_RowFailuresStayLocal ==
    [][/\ (RowStep /\ Last.fault /= "none") =>
            /\ pc' = pc
            /\ pc \in {"csv", "rows"}
            /\ Len(errors') = Len(errors) + 1
            /\ errors'[Len(errors')].kind = "Error processing"
            /\ errors'[Len(errors')].row = idx
            /\ SubSeq(errors', 1, Len(errors)) = errors
            /\ partners' = partners
            /\ created' = created
            /\ updated' = updated
       /\ (pc \in {"csv", "rows"} /\ pc' = "raised") =>
            /\ log' = log
            /\ file_type = "csv"
            /\ NextRecord(file.lines, pos) /= 0
            /\ file.lines[NextRecord(file.lines, pos)].t = "bad"
       /\ (pc \in {"csv", "rows"} /\ pc' = "done") =>
            /\ result'.kind = "return"
            /\ result'.msg.error_count = Len(errors)
            /\ \A k \in NonBlankLines(file_type, file) :
                  \E i \in 1..Len(log) : log[i].line = k + 1
      ]_vars

\* a row whose store call raised was followed by a row that was written,
\* and the run returned
C5_Witness ==
    /\ pc = "done"
    /\ result.kind = "return"
    /\ \E i, j \in 1..Len(log) :
          /\ i < j
          /\ log[i].outcome = "Error"
          /\ log[j].outcome \in {"Created", "Updated"}

(***************************************************************************)
(* C6.  The row number of every message is the line of the file the row    *)
(* was read from (header = 1).                                             *)
(***************************************************************************)
C6_RowNumberIsFileLine ==
    \A i \in 1..Len(log) :
        log[i].outcome \in {"Missing", "Skipped", "Error"} =>
            /\ log[i].idx = log[i].line
            /\ \E j \in 1..Len(errors) : errors[j].row = log[i].line

UnsupportedNames ==
    {<<"a", ".", "t", "x", "t">>,
     <<"c", "s", "v">>,
     <<"a", ".", "c", "s", "v", ".", "b", "a", "k">>}

UnsupportedRejected ==
    file_name \in UnsupportedNames =>
        /\ pc \in {"new", "invalid", "raised"}
        /\ pc = "raised" => result = UserError("Unsupported file format")
        /\ pc = "invalid" => result.kind = "ValidationError"
        /\ log = <<>>
        /\ calls = <<>>
        /\ partners = start_partners

(***************************************************************************)
(* C7.  As stated: once process_file has been invoked with an empty file   *)
(* name, the content is being or has been processed as CSV; a non-empty    *)
(* name that ends, in any letter case, in neither .csv nor .xlsx is        *)
(* rejected with no row processed.                                         *)
(***************************************************************************)
C7_EmptyNameProcessedAsCsv ==
    /\ (file_name = <<>> /\ run > 0) => pc \in {"csv", "done"}
    /\ UnsupportedRejected

(***************************************************************************)
(* C7 as amended.  An empty file name gets file_type csv, yet process_file *)
(* rejects it with 'Please upload a file.' before any row is processed; a  *)
(* non-empty name that ends, in any letter case, in neither .csv nor .xlsx *)
(* is rejected with no row processed.                                      *)
(***************************************************************************)
C7_EmptyNameRejected ==
    /\ file_name = <<>> =>
          /\ file_type = "csv"
          /\ pc \in {"new", "saved", "raised"}
          /\ run > 0 =>
                /\ pc = "raised"
                /\ result = UserError("Please upload a file.")
          /\ log = <<>>
          /\ calls = <<>>
          /\ partners = start_partners
    /\ UnsupportedRejected

\* process_file was invoked with an empty file name and has raised
C7_Witness ==
    /\ file_name = <<>>
    /\ file_type = "csv"
    /\ run = 1
    /\ pc = "raised"

(***************************************************************************)
(* C8.  Bytes written in Windows-1252 that hold a non-ASCII character and  *)
(* are not valid UTF-8 decode to the text that the UTF-8 bytes of the same *)
(* text decode to; the fallback tries latin-1, iso-8859-1, cp1252 in that  *)
(* order and fails only after all three.                                   *)
(***************************************************************************)
C8_Cp1252DecodesLikeUtf8 ==
    /\ (dpc = "decoded" /\ encoding = "cp1252" /\ attempt > 0
            /\ \E i \in 1..Len(text) : text[i] >= 128)
          => file_string = Utf8SigDecode(Utf8Encode(text)).chars
    /\ dpc = "failed" => attempt = Len(FallbackEncodings)
    /\ FallbackEncodings = <<"latin-1", "iso-8859-1", "cp1252">>

CreateDone(call) == call.op = "create" /\ call.ok
WriteDone(call) == call.op = "write" /\ call.ok

(***************************************************************************)
(* C9.  When a run returns, created + updated + the number of messages is  *)
(* the number of non-blank rows of the file, created and updated are the   *)
(* numbers of creates and writes that succeeded, and the row numbers of    *)
(* the messages increase.                                                  *)
(***************************************************************************)
C9_OneOutcomePerRow ==
    pc = "done" =>
        /\ created + updated + Len(errors)
               = Cardinality(NonBlankLines(file_type, file))
        /\ created = Count(calls, CreateDone)
        /\ updated = Count(calls, WriteDone)
        /\ Len(partners) = Len(start_partners) + created
        /\ \A i, j \in 1..Len(errors) : i < j => errors[i].row < errors[j].row
        /\ result.msg.created = created
        /\ result.msg.updated = updated
        /\ result.msg.error_count = Len(errors)

\* a run returned with a create, a write and a message
C9_Witness ==
    /\ pc = "done"
    /\ created >= 1
    /\ updated >= 1
    /\ Len(errors) >= 1

LowerHeader(f) == [f EXCEPT !.header = [i \in 1..Len(@) |-> Lower(@[i])]]

(***************************************************************************)
(* C10.  A run on a file returns what the run on the same file with its    *)
(* header in lower case returns, on the same table, for both decoders.     *)
(***************************************************************************)
C10_HeaderCaseIgnored ==
    (pc = "done" /\ nfaults = 0) =>
        LET canon == RunFile(file_type, LowerHeader(file), import_mode,
                             start_partners, FaultLog)
        IN  /\ canon.status = "done"
            /\ canon.st.partners = partners
            /\ canon.st.created = created
            /\ canon.st.updated = updated
            /\ canon.st.errors = errors

====
